---- MODULE Spec2Model ----
(***************************************************************************)
(* A model of the terrain-aware pacing engine of running-calculator:       *)
(* src/script-browser.js (calculatePacing and its helpers) and the CLI     *)
(* variant src/unnamed/part_000.                                           *)
(*                                                                         *)
(* Numbers.  The program computes in IEEE doubles; the model computes in   *)
(* exact rational arithmetic.  A rational is a triple <<i, n, d>> that     *)
(* stands for i + n/d with d > 0, 0 <= n < d and gcd(n, d) = 1 (a mixed    *)
(* number in lowest terms), so two rationals are equal exactly when the    *)
(* triples are equal.  Infinity, which calculateMovingTimeForVflat can     *)
(* return, is the triple INF with denominator 0.                           *)
(***************************************************************************)
EXTENDS Integers, Sequences, FiniteSets

VARIABLES
    pc,                   \* position in calculatePacing / findVflatForTargetTime / the driver
    call,                 \* pure-function driver: the call being made
    ret,                  \* pure-function driver: the value returned
    inp,                  \* calculatePacing: the track, segmentLengthM, smoothingWindow
    req,                  \* calculatePacing: targetTime, profile, prudence, checkpoints, restPeriods
    eleSmoothed,          \* smoothed elevation of every track point
    cumulativeDistances,  \* cumulative distance of every track point (m)
    targets,              \* resamplePoints: the target distances
    resampled,            \* resamplePoints: the points produced so far
    j,                    \* resamplePoints: the forward pointer (0-based, as in the code)
    segments,             \* the segments between consecutive resampled points
    totalStopSec,         \* checkpoint stops plus rest periods (s)
    targetTotalSec,       \* the parsed target time (s)
    targetMovingSec,      \* targetTotalSec - totalStopSec
    iterations,           \* findVflatForTargetTime: the number of bisection steps
    lo,                   \* findVflatForTargetTime: lower end of the bracket (km/h)
    hi,                   \* findVflatForTargetTime: upper end of the bracket (km/h)
    iter,                 \* findVflatForTargetTime: the loop counter i
    vFlatKmh,             \* the calibrated flat speed
    detailedSegments,     \* segments with speedKmh and the rounded timeSec
    totals,               \* computedMovingSec and computedTotalSec of the result
    dPlusTotal,           \* elevation gain over the raw points (m)
    dMinusTotal,          \* elevation loss over the raw points (m)
    perKm,                \* the per-kilometre entries of the result
    steps                 \* the stages of the result

driverVars == <<call, ret>>
trackVars  == <<inp, eleSmoothed, cumulativeDistances, targets, resampled, j>>
searchVars == <<iterations, lo, hi, iter, vFlatKmh>>
stopVars   == <<totalStopSec, targetTotalSec, targetMovingSec>>
gainVars   == <<dPlusTotal, dMinusTotal>>
reportVars == <<perKm, steps>>

vars == <<pc, driverVars, trackVars, req, segments, stopVars, searchVars,
          detailedSegments, totals, gainVars, reportVars>>

----------------------------------------------------------------------------
(* Exact rational arithmetic *)

Abs(x) == IF x < 0 THEN -x ELSE x

RECURSIVE GCD(_, _)
GCD(a, b) == IF b = 0 THEN a ELSE GCD(b, a % b)

\* n/d for d > 0, in lowest terms, as a mixed number
Norm(n, d) ==
    LET g  == GCD(Abs(n), d)
        nn == n \div g
        dd == d \div g
    IN  <<nn \div dd, nn % dd, dd>>

Frac(n, d) == IF d < 0 THEN Norm(-n, -d) ELSE Norm(n, d)

RInt(k) == <<k, 0, 1>>

INF == <<0, 0, 0>>

IsFinite(x) == x[3] # 0

\* numerator and denominator of the improper fraction
Num(x) == x[1] * x[3] + x[2]
Den(x) == x[3]

RAdd(x, y) ==
    LET g     == GCD(x[3], y[3])
        L     == (x[3] \div g) * y[3]
        a     == x[2] * (L \div x[3])
        b     == y[2] * (L \div y[3])
        carry == IF a >= L - b THEN 1 ELSE 0
        r     == IF carry = 1 THEN a - (L - b) ELSE a + b
        gg    == GCD(r, L)
    IN  <<x[1] + y[1] + carry, r \div gg, L \div gg>>

RNeg(x) == IF x[2] = 0 THEN <<-x[1], 0, 1>> ELSE <<-x[1] - 1, x[3] - x[2], x[3]>>

RSub(x, y) == RAdd(x, RNeg(y))

RMul(x, y) ==
    LET a  == Num(x)
        b  == Den(x)
        c  == Num(y)
        d  == Den(y)
        g1 == GCD(Abs(a), d)
        g2 == GCD(Abs(c), b)
    IN  Norm((a \div g1) * (c \div g2), (b \div g2) * (d \div g1))

RInv(x) == Frac(Den(x), Num(x))

RDiv(x, y) == RMul(x, RInv(y))

\* a/b < c/d for proper fractions, by continued fractions (no products)
RECURSIVE FracLt(_, _, _, _)
FracLt(a, b, c, d) ==
    IF c = 0 THEN FALSE
    ELSE IF a = 0 THEN TRUE
    ELSE IF d \div c # b \div a THEN d \div c < b \div a
    ELSE FracLt(d % c, c, b % a, a)

RLt(x, y) ==
    \/ x[1] < y[1]
    \/ x[1] = y[1] /\ FracLt(x[2], x[3], y[2], y[3])

RLe(x, y) == ~RLt(y, x)

RAbs(x) == IF x[1] < 0 THEN RNeg(x) ELSE x

\* Math.floor and Math.round (round half up)
RFloor(x) == x[1]
RRound(x) == IF 2 * x[2] >= x[3] THEN x[1] + 1 ELSE x[1]

\* x % k of JavaScript for a finite x and an integer k > 0: the remainder has
\* the sign of x
RMod(x, k) ==
    LET q == RFloor(RDiv(x, RInt(k)))
        t == IF x[1] < 0 /\ RMul(RInt(k), RInt(q)) # x THEN q + 1 ELSE q
    IN  RSub(x, RMul(RInt(k), RInt(t)))

\* the three fields of the "HH:MM:SS" string, before padding
formatTime(seconds) ==
    [h |-> RFloor(RDiv(seconds, RInt(3600))),
     m |-> RFloor(RDiv(RMod(seconds, 3600), RInt(60))),
     s |-> RRound(RMod(seconds, 60))]

\* comparisons of a moving time, which may be Infinity, with a finite number
TimeGt(t, x) == IF IsFinite(t) THEN RLt(x, t) ELSE TRUE
TimeLe(t, x) == ~TimeGt(t, x)

----------------------------------------------------------------------------
(* Slope-speed model *)

pickSpeedFromRange_fromSlowEnd(minKmh, maxKmh, prudence) ==
    RAdd(minKmh, RMul(prudence, RSub(maxKmh, minKmh)))

\* maxKmh - prudence * (maxKmh - minKmh)
pickSpeedFromRange(minKmh, maxKmh, prudence) ==
    RSub(maxKmh, RMul(prudence, RSub(maxKmh, minKmh)))

\* the slope brackets of calculateSpeedForSlope, one per `if`
InFlat(s)        == RLe(RInt(-1), s) /\ RLe(s, RInt(1))
InUp1to12_open(s) == RLt(RInt(1), s) /\ RLt(s, RInt(12))
InUp1to12(s)     == RLt(RInt(1), s) /\ RLe(s, RInt(12))
InUp12to15(s)    == RLt(RInt(12), s) /\ RLe(s, RInt(15))
InUp15to20(s)    == RLt(RInt(15), s) /\ RLe(s, RInt(20))
InUpOver20(s)    == RLt(RInt(20), s)
InDown1to3(s)    == RLt(s, RInt(-1)) /\ RLe(RInt(-3), s)
InDown3to4(s)    == RLt(s, RInt(-3)) /\ RLe(RInt(-4), s)
InDown4to6(s)    == RLt(s, RInt(-4)) /\ RLe(RInt(-6), s)
InDown6to8(s)    == RLt(s, RInt(-6)) /\ RLe(RInt(-8), s)
InDown8to12(s)   == RLt(s, RInt(-8)) /\ RLe(RInt(-12), s)
InDownOver12(s)  == RLt(s, RInt(-12))

calculateSpeedForSlope(slopePct, vFlat, profile, prudence) ==
    IF InFlat(slopePct) THEN vFlat
    ELSE IF InUp1to12(slopePct)
        THEN RDiv(vFlat, RAdd(RInt(1), RMul(Frac(4, 100), slopePct)))
    ELSE IF InUp12to15(slopePct)
        THEN IF profile = "trained"
             THEN pickSpeedFromRange(Frac(545, 100), Frac(600, 100), prudence)
             ELSE pickSpeedFromRange(Frac(462, 100), Frac(545, 100), prudence)
    ELSE IF InUp15to20(slopePct)
        THEN IF profile = "trained"
             THEN pickSpeedFromRange(Frac(480, 100), Frac(545, 100), prudence)
             ELSE pickSpeedFromRange(Frac(400, 100), Frac(462, 100), prudence)
    ELSE IF InUpOver20(slopePct)
        THEN IF profile = "trained"
             THEN pickSpeedFromRange(Frac(400, 100), Frac(462, 100), prudence)
             ELSE pickSpeedFromRange(Frac(333, 100), Frac(400, 100), prudence)
    ELSE LET absSlope == RAbs(slopePct)
             down     == RSub(RInt(1), RMul(Frac(2, 100), absSlope))
         IN  IF InDown1to3(slopePct)
                 THEN RDiv(vFlat, down)
             ELSE IF InDown3to4(slopePct)
                 THEN RDiv(vFlat, RMul(down, Frac(105, 100)))
             ELSE IF InDown4to6(slopePct)
                 THEN RDiv(vFlat, RMul(down, Frac(110, 100)))
             ELSE IF InDown6to8(slopePct)
                 THEN pickSpeedFromRange(Frac(545, 100), Frac(667, 100), prudence)
             ELSE IF InDown8to12(slopePct)
                 THEN pickSpeedFromRange(Frac(462, 100), Frac(600, 100), prudence)
             ELSE IF InDownOver12(slopePct)
                 THEN pickSpeedFromRange(Frac(400, 100), Frac(545, 100), prudence)
             ELSE vFlat

----------------------------------------------------------------------------
(* Moving time for a flat speed *)

\* (distKm / speed) * 3600
segmentTimeSec_inverted(distKm, speed) == RMul(RMul(distKm, speed), RInt(3600))

segmentTimeSec(distKm, speed) == RMul(RDiv(distKm, speed), RInt(3600))

RECURSIVE MovingTimeFrom(_, _, _, _, _, _)
MovingTimeFrom(segs, k, totalTime, vFlat, profile, prudence) ==
    IF k > Len(segs) THEN totalTime
    ELSE LET seg    == segs[k]
             distKm == RDiv(seg.lengthM, RInt(1000))
             speed  == calculateSpeedForSlope(seg.slopePct, vFlat, profile, prudence)
         IN  IF ~IsFinite(speed) \/ RLe(speed, RInt(0))
             THEN INF
             ELSE MovingTimeFrom(segs, k + 1, RAdd(totalTime, segmentTimeSec(distKm, speed)),
                                 vFlat, profile, prudence)

calculateMovingTimeForVflat_skipping(segs, vFlat, profile, prudence) ==
    MovingTimeFrom(SelectSeq(segs, LAMBDA seg :
                       RLt(RInt(0), calculateSpeedForSlope(seg.slopePct, vFlat, profile, prudence))),
                   1, RInt(0), vFlat, profile, prudence)

calculateMovingTimeForVflat(segs, vFlat, profile, prudence) ==
    MovingTimeFrom(segs, 1, RInt(0), vFlat, profile, prudence)

----------------------------------------------------------------------------
(* Input sets shared by the specifications *)

Profiles == {"trained", "standard"}

\* slopes in tenths of a percent around every bracket edge of the table
SlopeTenths ==
    {-250, -121, -120, -119, -81, -80, -79, -61, -60, -59, -41, -40, -39,
     -31, -30, -29, -11, -10, -9, 0, 9, 10, 11, 50, 119, 120, 121,
     149, 150, 151, 199, 200, 201, 400}

FlatSpeeds == {RInt(3), RInt(10), Frac(29, 2), RInt(25)}

Prudences == {RInt(0), Frac(1, 4), Frac(1, 2), RInt(1)}

\* segment lists for the moving-time calls: up to MaxSegs segments, each of a
\* length and a slope (percent) that falls in a different bracket
MaxSegs == 2

SegKinds ==
    [lengthM : {RInt(250), RInt(150)}, slopePct : {RInt(p) : p \in {0, 5, 25, -5, -10}}]

SegLists == UNION {[1..n -> SegKinds] : n \in 1..MaxSegs}

----------------------------------------------------------------------------
(* Elevation conditioning *)

\* the `null` of the code, which is not a number
NULL == <<0, 0, -1>>

\* the NaN of the code (also what Number(undefined) gives)
NAN == <<0, 0, -2>>

IsNumber(x) == x[3] > 0

\* the global isFinite(x): Number(x) is neither NaN nor infinite, and
\* Number(null) is 0
isFinite(x) == IsNumber(x) \/ x = NULL

RECURSIVE FillForward(_, _, _)
FillForward(filled, i, last) ==
    IF i > Len(filled) THEN filled
    ELSE IF isFinite(filled[i]) THEN FillForward(filled, i + 1, filled[i])
    ELSE IF last # NULL THEN FillForward([filled EXCEPT ![i] = last], i + 1, last)
    ELSE FillForward(filled, i + 1, last)

RECURSIVE FillBackward(_, _, _)
FillBackward(filled, i, next) ==
    IF i < 1 THEN filled
    ELSE IF isFinite(filled[i]) THEN FillBackward(filled, i - 1, filled[i])
    ELSE IF next # NULL THEN FillBackward([filled EXCEPT ![i] = next], i - 1, next)
    ELSE FillBackward(filled, i - 1, next)

fillMissingElevation(elevations) ==
    LET fwd == FillForward(elevations, 1, NULL)
        bwd == FillBackward(fwd, Len(fwd), NULL)
    IN  [i \in 1..Len(bwd) |-> IF isFinite(bwd[i]) THEN bwd[i] ELSE RInt(0)]

\* sum and count of the numbers among elevations[from..to], clipped to the array
RECURSIVE WindowSum(_, _, _)
WindowSum(elevations, from, to) ==
    IF from > to THEN <<RInt(0), 0>>
    ELSE LET rest == WindowSum(elevations, from + 1, to)
         IN  IF from >= 1 /\ from <= Len(elevations) /\ IsNumber(elevations[from])
             THEN <<RAdd(elevations[from], rest[1]), rest[2] + 1>>
             ELSE rest

smoothElevation_trailingWindow(elevations, windowSize) ==
    IF windowSize = 1 THEN elevations
    ELSE LET half == windowSize \div 2
         IN  [i \in 1..Len(elevations) |->
                LET sc == WindowSum(elevations, i - half, i)
                IN  IF sc[2] > 0 THEN RDiv(sc[1], RInt(sc[2])) ELSE NULL]

smoothElevation(elevations, windowSize) ==
    IF windowSize = 1 THEN elevations
    ELSE LET half == windowSize \div 2
         IN  [i \in 1..Len(elevations) |->
                LET sc == WindowSum(elevations, i - half, i + half)
                IN  IF sc[2] > 0 THEN RDiv(sc[1], RInt(sc[2])) ELSE NULL]

----------------------------------------------------------------------------
(* Cumulative distance.  haversineDistance is not computed: a track gives the *)
(* great-circle distance between every two consecutive points as inp.gaps.  *)

haversineDistance(gaps, i) == gaps[i]

RECURSIVE CumulativeFrom(_, _, _)
CumulativeFrom(gaps, i, acc) ==
    IF i > Len(gaps) THEN acc
    ELSE CumulativeFrom(gaps, i + 1, Append(acc, RAdd(acc[Len(acc)], haversineDistance(gaps, i))))

buildCumulativeDistances(gaps) == CumulativeFrom(gaps, 1, <<RInt(0)>>)

----------------------------------------------------------------------------
(* Track resampler *)

\* for (let d = 0; d < total; d += stepM) targets.push(d)
loopContinues_inclusive(d, total) == RLe(d, total)

loopContinues(d, total) == RLt(d, total)

RECURSIVE TargetsFrom(_, _, _, _)
TargetsFrom(d, total, stepM, acc) ==
    IF loopContinues(d, total) THEN TargetsFrom(RAdd(d, stepM), total, stepM, Append(acc, d))
    ELSE acc

\* targets.push(total)
pushTotal_dropped(acc, total) == acc

pushTotal(acc, total) == Append(acc, total)

resampleTargets(total, stepM) == pushTotal(TargetsFrom(RInt(0), total, stepM, <<>>), total)

\* while (j < cumulativeDistances.length && cumulativeDistances[j] < target) j++
AdvancePointer_notAdvancing(cum, jj, target) == jj

RECURSIVE AdvancePointer(_, _, _)
AdvancePointer(cum, jj, target) ==
    IF jj < Len(cum) /\ RLt(cum[jj + 1], target)
    THEN AdvancePointer(cum, jj + 1, target)
    ELSE jj

\* if (j >= cumulativeDistances.length) j = cumulativeDistances.length - 1
ClampPointer(cum, jj) == IF jj >= Len(cum) THEN Len(cum) - 1 ELSE jj

interpolatePoint_lowerPoint(cum, ele, jj, target, index) ==
    [index |-> index, distanceM |-> target, ele |-> ele[jj]]

\* the point interpolated at `target` between the points jj-1 and jj (0-based)
interpolatePoint(cum, ele, jj, target, index) ==
    LET d0 == cum[jj]
        d1 == cum[jj + 1]
        t  == IF d1 = d0 THEN RInt(0) ELSE RDiv(RSub(target, d0), RSub(d1, d0))
    IN  [index     |-> index,
         distanceM |-> target,
         ele       |-> RAdd(ele[jj], RMul(RSub(ele[jj + 1], ele[jj]), t))]

\* one segment per pair of consecutive resampled points
buildSegments(rs) ==
    [i \in 1..(Len(rs) - 1) |->
        LET a         == rs[i]
            b         == rs[i + 1]
            distM     == RSub(b.distanceM, a.distanceM)
            deltaElev == RSub(b.ele, a.ele)
        IN  [index      |-> i - 1,
             fromM      |-> a.distanceM,
             toM        |-> b.distanceM,
             lengthM    |-> distM,
             deltaElevM |-> deltaElev,
             slopePct   |-> IF RLt(RInt(0), distM)
                            THEN RMul(RDiv(deltaElev, distM), RInt(100))
                            ELSE RInt(0)]]

----------------------------------------------------------------------------
(* Stop time and target *)

\* parts.length is neither 2 nor 3: control reaches the throw
parseTimeThrows(parts) == Len(parts) # 2 /\ Len(parts) # 3

parseTimeToSeconds_secondsDropped(parts) == parts[1] * 3600 + parts[2] * 60

\* parts.length === 2: h*3600 + m*60; parts.length === 3: ... + s
parseTimeToSeconds(parts) ==
    IF Len(parts) = 2 THEN parts[1] * 3600 + parts[2] * 60
    ELSE parts[1] * 3600 + parts[2] * 60 + parts[3]

RECURSIVE SumStopSec(_, _)
SumStopSec(checkpoints, k) ==
    IF k > Len(checkpoints) THEN RInt(0)
    ELSE RAdd(RMul(checkpoints[k][2], RInt(60)), SumStopSec(checkpoints, k + 1))

computeTotalStopSec(checkpoints, restPeriods) ==
    RAdd(SumStopSec(checkpoints, 1), RInt(restPeriods[1] * restPeriods[2] * 60))

----------------------------------------------------------------------------
(* Flat-speed calibrator *)

vMin == 3
vMax == 25

\* const mid = (lo + hi) / 2
Midpoint_unparenthesised(l, h) == RAdd(l, RDiv(h, RInt(2)))

Midpoint(l, h) == RDiv(RAdd(l, h), RInt(2))

\* if (timeMid > targetMovingTimeSec) lo = mid; else hi = mid
TooSlow_inverted(timeMid, target) == ~TimeGt(timeMid, target)

TooSlow(timeMid, target) == TimeGt(timeMid, target)

\* the value findVflatForTargetTime returns from the final bracket
FinalSpeed_lowerEnd(l, h) == l

FinalSpeed(l, h) == RDiv(RAdd(l, h), RInt(2))

\* Math.round of the unrounded time of a segment
roundTimeSec_truncated(timeSec) == RFloor(timeSec)

roundTimeSec(timeSec) == RRound(timeSec)

detailSegment(seg, v, profile, prudence) ==
    LET speed   == calculateSpeedForSlope(seg.slopePct, v, profile, prudence)
        distKm  == RDiv(seg.lengthM, RInt(1000))
        timeSec == segmentTimeSec(distKm, speed)
    IN  [index |-> seg.index, fromM |-> seg.fromM, toM |-> seg.toM,
         lengthM |-> seg.lengthM, deltaElevM |-> seg.deltaElevM,
         slopePct |-> seg.slopePct, speedKmh |-> speed,
         timeSec |-> roundTimeSec(timeSec)]

RECURSIVE SumTimeSec(_, _)
SumTimeSec(segs, k) ==
    IF k > Len(segs) THEN 0 ELSE segs[k].timeSec + SumTimeSec(segs, k + 1)

----------------------------------------------------------------------------
(* Elevation gain and loss *)

\* the elevations that gain and loss are accumulated from
gainElevations_smoothed(rawEle, smoothed) == smoothed

gainElevations(rawEle, smoothed) == rawEle

\* if (de > 0) dPlus += de; else if (de < 0) dMinus += -de
RECURSIVE GainLossFrom(_, _, _, _)
GainLossFrom(ele, i, dPlus, dMinus) ==
    IF i > Len(ele) THEN <<dPlus, dMinus>>
    ELSE LET de == RSub(ele[i], ele[i - 1])
         IN  IF RLt(RInt(0), de)
                 THEN GainLossFrom(ele, i + 1, RAdd(dPlus, de), dMinus)
             ELSE IF RLt(de, RInt(0))
                 THEN GainLossFrom(ele, i + 1, dPlus, RAdd(dMinus, RNeg(de)))
             ELSE GainLossFrom(ele, i + 1, dPlus, dMinus)

accumulateGainLoss(ele) == GainLossFrom(ele, 2, RInt(0), RInt(0))

----------------------------------------------------------------------------
(* Per-kilometre grouping *)

midpointM(seg) == RDiv(RAdd(seg.fromM, seg.toM), RInt(2))

\* Math.floor((seg.fromM + seg.toM) / 2 / 1000)
kmIndexOf(seg) == RFloor(RDiv(midpointM(seg), RInt(1000)))

emptyBin(kmIndex) ==
    [km |-> kmIndex + 1, count |-> 0, totalLengthM |-> RInt(0), totalTimeSec |-> 0,
     dPlusM |-> RInt(0), dMinusM |-> RInt(0)]

addToBin(bin, seg) ==
    [bin EXCEPT !.count = @ + 1,
                !.totalLengthM = RAdd(@, seg.lengthM),
                !.totalTimeSec = @ + seg.timeSec,
                !.dPlusM = IF RLt(RInt(0), seg.deltaElevM) THEN RAdd(@, seg.deltaElevM) ELSE @,
                !.dMinusM = IF RLt(RInt(0), seg.deltaElevM) THEN @
                            ELSE RAdd(@, RNeg(seg.deltaElevM))]

\* the loop over detailedSegments that fills the object perKm
RECURSIVE BinsFrom(_, _, _)
BinsFrom(segs, k, bins) ==
    IF k > Len(segs) THEN bins
    ELSE LET idx == kmIndexOf(segs[k])
             old == IF idx \in DOMAIN bins THEN bins[idx] ELSE emptyBin(idx)
         IN  BinsFrom(segs, k + 1,
                      [i \in DOMAIN bins \cup {idx} |->
                          IF i = idx THEN addToBin(old, segs[k]) ELSE bins[i]])

\* Object.values lists integer keys in ascending order
RECURSIVE KeysAscending(_)
KeysAscending(S) ==
    IF S = {} THEN <<>>
    ELSE LET m == CHOOSE x \in S : \A y \in S : x <= y
         IN  <<m>> \o KeysAscending(S \ {m})

perKmEntry(bin) ==
    [km |-> bin.km,
     distanceKm |-> RDiv(bin.totalLengthM, RInt(1000)),
     timeSec |-> RRound(RInt(bin.totalTimeSec)),
     dPlusM |-> RRound(bin.dPlusM),
     dMinusM |-> RRound(bin.dMinusM)]

groupPerKm(detailed) ==
    LET bins == BinsFrom(detailed, 1, <<>>)
        keys == KeysAscending(DOMAIN bins)
    IN  [k \in 1..Len(keys) |-> perKmEntry(bins[keys[k]])]

----------------------------------------------------------------------------
(* Stages *)

\* Array.prototype.sort((a, b) => a - b)
RECURSIVE InsertAscending(_, _)
InsertAscending(sorted, x) ==
    IF sorted = <<>> THEN <<x>>
    ELSE IF RLt(x, Head(sorted)) THEN <<x>> \o sorted
    ELSE <<Head(sorted)>> \o InsertAscending(Tail(sorted), x)

RECURSIVE SortFrom(_, _, _)
SortFrom(seq, k, sorted) ==
    IF k > Len(seq) THEN sorted ELSE SortFrom(seq, k + 1, InsertAscending(sorted, seq[k]))

sortAscending(seq) == SortFrom(seq, 1, <<>>)

\* [0, ...checkpoints.map(cp => cp[0]), totalDistanceKm].sort(...)
boundariesKm(checkpoints, totalDistanceKm) ==
    sortAscending(<<RInt(0)>> \o [k \in 1..Len(checkpoints) |-> checkpoints[k][1]]
                  \o <<totalDistanceKm>>)

\* Math.abs(last - b) > 0.001
apartFromLast(last, b) == RLt(Frac(1, 1000), RAbs(RSub(last, b)))

RECURSIVE UniqueFrom(_, _, _)
UniqueFrom(bs, k, unique) ==
    IF k > Len(bs) THEN unique
    ELSE IF unique = <<>> \/ apartFromLast(unique[Len(unique)], bs[k])
        THEN UniqueFrom(bs, k + 1, Append(unique, bs[k]))
    ELSE UniqueFrom(bs, k + 1, unique)

uniqueBoundaries(checkpoints, totalDistanceKm) ==
    UniqueFrom(boundariesKm(checkpoints, totalDistanceKm), 1, <<>>)

\* Math.abs(cp[0] - toKm) < 0.1
matchesEnd_samePosition(cp, toKm) == cp[1] = toKm

matchesEnd(cp, toKm) == RLt(RAbs(RSub(cp[1], toKm)), Frac(1, 10))

\* checkpoints.find(...): the first match in the order given, 0 for undefined
RECURSIVE FindCheckpoint(_, _, _)
FindCheckpoint(checkpoints, k, toKm) ==
    IF k > Len(checkpoints) THEN 0
    ELSE IF matchesEnd(checkpoints[k], toKm) THEN k
    ELSE FindCheckpoint(checkpoints, k + 1, toKm)

stageStopSec(checkpoints, toKm) ==
    LET k == FindCheckpoint(checkpoints, 1, toKm)
    IN  IF k = 0 THEN RInt(0) ELSE RMul(checkpoints[k][2], RInt(60))

\* the raw points whose cumulative distance lies in [fromKm, toKm]
RECURSIVE StepPointIndicesFrom(_, _, _, _, _)
StepPointIndicesFrom(cumRaw, k, fromKm, toKm, acc) ==
    IF k > Len(cumRaw) THEN acc
    ELSE LET cumDistKm == RDiv(cumRaw[k], RInt(1000))
         IN  StepPointIndicesFrom(cumRaw, k + 1, fromKm, toKm,
                 IF RLe(fromKm, cumDistKm) /\ RLe(cumDistKm, toKm)
                 THEN Append(acc, k) ELSE acc)

\* mid >= fromM && mid < toM
inStageWindow_closed(seg, fromM, toM) ==
    RLe(fromM, midpointM(seg)) /\ RLe(midpointM(seg), toM)

inStageWindow(seg, fromM, toM) ==
    RLe(fromM, midpointM(seg)) /\ RLt(midpointM(seg), toM)

RECURSIVE StepSegmentsFrom(_, _, _, _, _)
StepSegmentsFrom(detailed, k, fromM, toM, acc) ==
    IF k > Len(detailed) THEN acc
    ELSE StepSegmentsFrom(detailed, k + 1, fromM, toM,
             IF inStageWindow(detailed[k], fromM, toM) THEN Append(acc, detailed[k]) ELSE acc)

RECURSIVE SumLengthFrom(_, _)
SumLengthFrom(segs, k) ==
    IF k > Len(segs) THEN RInt(0) ELSE RAdd(segs[k].lengthM, SumLengthFrom(segs, k + 1))

buildStep(i, unique, checkpoints, cumRaw, ele, detailed) ==
    LET fromKm       == unique[i]
        toKm         == unique[i + 1]
        fromM        == RMul(fromKm, RInt(1000))
        toM          == RMul(toKm, RInt(1000))
        indices      == StepPointIndicesFrom(cumRaw, 1, fromKm, toKm, <<>>)
        gainLoss     == accumulateGainLoss([k \in 1..Len(indices) |-> ele[indices[k]]])
        stepSegments == StepSegmentsFrom(detailed, 1, fromM, toM, <<>>)
        movingSec    == SumTimeSec(stepSegments, 1)
        stopSec      == stageStopSec(checkpoints, toKm)
    IN  [index |-> i, fromKm |-> fromKm, toKm |-> toKm,
         distanceKm |-> RDiv(SumLengthFrom(stepSegments, 1), RInt(1000)),
         stepDPlus |-> gainLoss[1], stepDMinus |-> gainLoss[2],
         dPlusM |-> RRound(gainLoss[1]), dMinusM |-> RRound(gainLoss[2]),
         movingSec |-> RRound(RInt(movingSec)),
         stopSec |-> stopSec,
         totalSec |-> RRound(RAdd(RInt(movingSec), stopSec))]

buildSteps(checkpoints, totalDistanceKm, cumRaw, ele, detailed) ==
    LET unique == uniqueBoundaries(checkpoints, totalDistanceKm)
    IN  [i \in 1..(Len(unique) - 1) |->
            buildStep(i, unique, checkpoints, cumRaw, ele, detailed)]

----------------------------------------------------------------------------
(* calculatePacing, step by step *)

\* bounds of the model
MaxPts  == 3
MaxIter == 5

EleSet  == {0, 50}
GapSet  == {RInt(0), RInt(200)}

\* the two points (0, 0, 0 m) and (0, 0.01 deg, 100 m): on the equator 0.01
\* degree of longitude is 6371000 * pi / 18000 = 1111.949 m
ScenarioTrack == [rawEle |-> <<RInt(0), RInt(100)>>, gaps |-> <<Frac(1111949, 1000)>>]

Tracks ==
    UNION {[rawEle : [1..n -> {RInt(e) : e \in EleSet}], gaps : [1..(n - 1) -> GapSet]] :
           n \in 2..MaxPts}

\* the scenario is run with the defaults: segmentLengthM = 250, smoothingWindow = 9
ScenarioInput ==
    [track |-> ScenarioTrack, segmentLengthM |-> RInt(250), smoothingWindow |-> 9]

StepSet   == {RInt(250), RInt(100)}
WindowSet == {1, 3}

\* calculatePacing takes any smoothingWindow it is given: 0 and 2 on the
\* two-point tracks, with the default segment length

EvenWindowInputs ==
    [track : {t \in Tracks : Len(t.rawEle) = 2}, segmentLengthM : {RInt(250)},
     smoothingWindow : {0, 2}]

TargetTimes == {<<0, 1>>, <<0, 3, 0>>, <<1, 0, 0>>}
CheckpointLists == {<<>>, << <<Frac(2, 10), RInt(1)>> >>}
RestPeriodSet == {<<0, 0>>, <<1, 2>>}

Requests ==
    [targetTime : TargetTimes, profile : Profiles, prudence : {RInt(0), Frac(1, 2)},
     checkpoints : CheckpointLists, restPeriods : RestPeriodSet]

NoReq == [targetTime |-> <<>>]

IdleDriver == call = [fn |-> "none"] /\ ret = INF

IdleTrack ==
    /\ eleSmoothed = <<>>
    /\ cumulativeDistances = <<>>
    /\ targets = <<>>
    /\ resampled = <<>>
    /\ j = 1

IdleSearch ==
    /\ lo = RInt(vMin)
    /\ hi = RInt(vMax)
    /\ iter = 0
    /\ vFlatKmh = NULL

IdleReport ==
    /\ dPlusTotal = RInt(0)
    /\ dMinusTotal = RInt(0)
    /\ perKm = <<>>
    /\ steps = <<>>

IdleStops ==
    /\ totalStopSec = RInt(0)
    /\ targetTotalSec = 0
    /\ targetMovingSec = RInt(0)

Init ==
    /\ pc = "start"
    /\ IdleDriver
    /\ inp \in {ScenarioInput} \cup
                [track : Tracks, segmentLengthM : StepSet, smoothingWindow : WindowSet] \cup
                EvenWindowInputs
    /\ req = NoReq
    /\ IdleTrack
    /\ segments = <<>>
    /\ IdleStops
    /\ iterations = MaxIter
    /\ IdleSearch
    /\ detailedSegments = <<>>
    /\ totals = [computedMovingSec |-> 0, computedTotalSec |-> RInt(0)]
    /\ IdleReport

\* steps 2-5 of calculatePacing and the targets of resamplePoints
Condition ==
    /\ pc = "start"
    /\ LET eleFilled == fillMissingElevation(inp.track.rawEle)
           smoothed  == smoothElevation(eleFilled, inp.smoothingWindow)
           cum       == buildCumulativeDistances(inp.track.gaps)
           gainLoss  == accumulateGainLoss(gainElevations(inp.track.rawEle, smoothed))
       IN  /\ dPlusTotal' = gainLoss[1]
           /\ dMinusTotal' = gainLoss[2]
           /\ eleSmoothed' = smoothed
           /\ cumulativeDistances' = cum
           /\ targets' = resampleTargets(cum[Len(cum)], inp.segmentLengthM)
    /\ pc' = "resample"
    /\ UNCHANGED <<driverVars, inp, resampled, j, req, segments, stopVars, searchVars,
                   detailedSegments, totals, reportVars>>

\* one pass of the loop over the targets in resamplePoints
ResampleStep ==
    /\ pc = "resample"
    /\ Len(resampled) < Len(targets)
    /\ LET i      == Len(resampled)
           target == targets[i + 1]
           jj     == ClampPointer(cumulativeDistances,
                                  AdvancePointer(cumulativeDistances, j, target))
       IN  /\ j' = jj
           /\ resampled' = Append(resampled,
                  interpolatePoint(cumulativeDistances, eleSmoothed, jj, target, i))
    /\ UNCHANGED <<pc, driverVars, inp, eleSmoothed, cumulativeDistances, targets, req,
                   segments, stopVars, searchVars, detailedSegments, totals, gainVars, reportVars>>

\* step 7 of calculatePacing
BuildSegments ==
    /\ pc = "resample"
    /\ Len(resampled) = Len(targets)
    /\ segments' = buildSegments(resampled)
    /\ pc' = "stops"
    /\ UNCHANGED <<driverVars, trackVars, req, stopVars, searchVars, detailedSegments, totals, gainVars, reportVars>>

\* the test that makes calculatePacing throw: no time is left for moving
noMovingTime_strict(targetMoving) == RLt(targetMoving, RInt(0))

noMovingTime(targetMoving) == RLe(targetMoving, RInt(0))

\* steps 8-9 of calculatePacing; the request is drawn where it is first read
ComputeTarget ==
    /\ pc = "stops"
    /\ \E r \in Requests :
        LET stop  == computeTotalStopSec(r.checkpoints, r.restPeriods)
            total == parseTimeToSeconds(r.targetTime)
        IN  /\ req' = r
            /\ totalStopSec' = stop
            /\ targetTotalSec' = total
            /\ targetMovingSec' = RSub(RInt(total), stop)
            /\ pc' = IF noMovingTime(RSub(RInt(total), stop)) THEN "error" ELSE "search"
    /\ UNCHANGED <<driverVars, trackVars, segments, searchVars, detailedSegments, totals, gainVars, reportVars>>

\* one pass of the loop of findVflatForTargetTime
BisectStep ==
    /\ pc = "search"
    /\ iter < iterations
    /\ LET mid     == Midpoint(lo, hi)
           timeMid == calculateMovingTimeForVflat(segments, mid, req.profile, req.prudence)
       IN  IF TooSlow(timeMid, targetMovingSec)
           THEN lo' = mid /\ hi' = hi
           ELSE hi' = mid /\ lo' = lo
    /\ iter' = iter + 1
    /\ UNCHANGED <<pc, driverVars, trackVars, req, segments, stopVars, iterations, vFlatKmh,
                   detailedSegments, totals, gainVars, reportVars>>

\* return (lo + hi) / 2
BisectReturn ==
    /\ pc = "search"
    /\ iter >= iterations
    /\ vFlatKmh' = FinalSpeed(lo, hi)
    /\ pc' = "found"
    /\ UNCHANGED <<driverVars, trackVars, req, segments, stopVars, iterations, lo, hi, iter,
                   detailedSegments, totals, gainVars, reportVars>>

\* step 11 of calculatePacing
DetailSegments ==
    /\ pc = "found"
    /\ detailedSegments' =
          [k \in 1..Len(segments) |->
              detailSegment(segments[k], vFlatKmh, req.profile, req.prudence)]
    /\ pc' = "detailed"
    /\ UNCHANGED <<driverVars, trackVars, req, segments, stopVars, searchVars, totals,
                   gainVars, reportVars>>

\* step 12 of calculatePacing
GroupPerKm ==
    /\ pc = "detailed"
    /\ perKm' = groupPerKm(detailedSegments)
    /\ pc' = "grouped"
    /\ UNCHANGED <<driverVars, trackVars, req, segments, stopVars, searchVars,
                   detailedSegments, totals, gainVars, steps>>

\* steps 13-14 of calculatePacing
BuildSteps ==
    /\ pc = "grouped"
    /\ steps' = buildSteps(req.checkpoints,
                           RDiv(cumulativeDistances[Len(cumulativeDistances)], RInt(1000)),
                           buildCumulativeDistances(inp.track.gaps),
                           gainElevations(inp.track.rawEle, eleSmoothed),
                           detailedSegments)
    /\ pc' = "staged"
    /\ UNCHANGED <<driverVars, trackVars, req, segments, stopVars, searchVars,
                   detailedSegments, totals, gainVars, perKm>>

\* step 15 of calculatePacing
Totals ==
    /\ pc = "staged"
    /\ LET computedMovingSec == SumTimeSec(detailedSegments, 1)
       IN  totals' = [computedMovingSec |-> computedMovingSec,
                      computedTotalSec  |-> RAdd(RInt(computedMovingSec), totalStopSec)]
    /\ pc' = "done"
    /\ UNCHANGED <<driverVars, trackVars, req, segments, stopVars, searchVars,
                   detailedSegments, gainVars, reportVars>>

Next ==
    \/ Condition
    \/ ResampleStep
    \/ BuildSegments
    \/ ComputeTarget
    \/ BisectStep
    \/ BisectReturn
    \/ DetailSegments
    \/ GroupPerKm
    \/ BuildSteps
    \/ Totals

Spec == Init /\ [][Next]_vars

----------------------------------------------------------------------------
(* findVflatForTargetTime alone, on abstract segment lists *)

CalibTargets == {30, 150, 700}

\* segment lists over the flat, a v-dependent and two fixed-speed brackets
CalibSegLists ==
    {segs \in SegLists : \A k \in 1..Len(segs) : segs[k].slopePct # RInt(-5)}

InitCalib ==
    /\ pc = "search"
    /\ IdleDriver
    /\ inp = [track |-> [rawEle |-> <<>>, gaps |-> <<>>]]
    /\ req \in [profile : Profiles, prudence : {RInt(0), Frac(1, 2)}]
    /\ IdleTrack
    /\ segments \in CalibSegLists
    /\ totalStopSec = RInt(0)
    /\ targetTotalSec \in CalibTargets
    /\ targetMovingSec = RInt(targetTotalSec)
    /\ iterations \in {1, MaxIter}
    /\ IdleSearch
    /\ detailedSegments = <<>>
    /\ totals = [computedMovingSec |-> 0, computedTotalSec |-> RInt(0)]
    /\ IdleReport

NextCalib == BisectStep \/ BisectReturn

SpecCalib == InitCalib /\ [][NextCalib]_vars

----------------------------------------------------------------------------
(* Steps 12-15 of calculatePacing alone: longer tracks, richer checkpoint   *)
(* lists, segments with abstract times                                      *)

\* tracks whose points are 400 or 700 m apart,
\* and a track of 501.9 m, whose last segment is 1.9 m long, and a track with
\* two points at the same place, 400 m from the start, 50 m apart in elevation
ReportTracks ==
    UNION {[rawEle : [1..n -> {RInt(e) : e \in EleSet}], gaps : [1..(n - 1) -> {RInt(400), RInt(700)}]] :
           n \in 2..MaxPts}
    \cup {[rawEle |-> <<RInt(0), RInt(50)>>, gaps |-> <<Frac(5019, 10)>>],
          [rawEle |-> <<RInt(0), RInt(0), RInt(50), RInt(50)>>,
           gaps |-> <<RInt(400), RInt(0), RInt(300)>>]}

ReportStepM == RInt(500)

\* the rounded time and the elevation change a segment can have
ReportKinds == {[timeSec |-> 100, deltaElevM |-> RInt(20)],
                [timeSec |-> 201, deltaElevM |-> RInt(-10)]}

\* checkpoints [km, stop minutes] as the form hands them over: km > 0, sorted
ReportCheckpointLists ==
    {<<>>,
     << <<Frac(3, 10), Frac(3, 2)>> >>,
     << <<Frac(35, 100), RInt(1)>> >>,
     << <<Frac(3995, 10000), RInt(1)>> >>,
     << <<Frac(4, 10), RInt(2)>> >>,
     << <<Frac(5009, 10000), RInt(1)>> >>,
     << <<Frac(7, 10), RInt(1)>> >>,
     << <<Frac(35, 100), RInt(1)>>, <<Frac(3505, 10000), RInt(2)>> >>,
     << <<Frac(35, 100), RInt(1)>>, <<Frac(4, 10), RInt(2)>> >>,
     << <<Frac(75, 100), RInt(1)>>, <<Frac(15, 10), RInt(2)>> >>}

\* the segments between the resampling targets of a track of length total
reportSegments(total, kinds) ==
    LET ts == resampleTargets(total, ReportStepM)
    IN  [k \in 1..(Len(ts) - 1) |->
            LET lengthM == RSub(ts[k + 1], ts[k])
            IN  [index |-> k - 1, fromM |-> ts[k], toM |-> ts[k + 1], lengthM |-> lengthM,
                 deltaElevM |-> kinds[k].deltaElevM,
                 slopePct |-> RMul(RDiv(kinds[k].deltaElevM, lengthM), RInt(100)),
                 speedKmh |-> RDiv(RMul(lengthM, Frac(36, 10)), RInt(kinds[k].timeSec)),
                 timeSec |-> kinds[k].timeSec]]

InitReport ==
    /\ pc = "detailed"
    /\ IdleDriver
    /\ \E track \in ReportTracks :
        LET cum      == buildCumulativeDistances(track.gaps)
            total    == cum[Len(cum)]
            n        == Len(resampleTargets(total, ReportStepM)) - 1
            gainLoss == accumulateGainLoss(gainElevations(track.rawEle, track.rawEle))
        IN  /\ inp = [track |-> track, segmentLengthM |-> ReportStepM, smoothingWindow |-> 1]
            /\ eleSmoothed = track.rawEle
            /\ cumulativeDistances = cum
            /\ dPlusTotal = gainLoss[1]
            /\ dMinusTotal = gainLoss[2]
            /\ \E kinds \in [1..n -> ReportKinds] :
                  detailedSegments = reportSegments(total, kinds)
    /\ targets = <<>>
    /\ resampled = <<>>
    /\ j = 1
    /\ segments = <<>>
    /\ \E cps \in ReportCheckpointLists :
        /\ req = [targetTime |-> <<>>, profile |-> "trained", prudence |-> Frac(1, 2),
                  checkpoints |-> cps, restPeriods |-> <<0, 0>>]
        /\ totalStopSec = computeTotalStopSec(cps, <<0, 0>>)
    /\ targetTotalSec = 0
    /\ targetMovingSec = RInt(0)
    /\ iterations = 0
    /\ IdleSearch
    /\ totals = [computedMovingSec |-> 0, computedTotalSec |-> RInt(0)]
    /\ perKm = <<>>
    /\ steps = <<>>

NextReport == GroupPerKm \/ BuildSteps \/ Totals

SpecReport == InitReport /\ [][NextReport]_vars

----------------------------------------------------------------------------
(* The command-line variant (src/unnamed/part_000): option checks, elevation  *)
(* conditioning and the totals of elevation gain and loss                    *)

NumberIsFinite(x) == IsNumber(x)

RECURSIVE fillMissingForward(_, _, _)
fillMissingForward(out, i, last) ==
    IF i > Len(out) THEN out
    ELSE IF NumberIsFinite(out[i]) THEN fillMissingForward(out, i + 1, out[i])
    ELSE IF last # NULL THEN fillMissingForward([out EXCEPT ![i] = last], i + 1, last)
    ELSE fillMissingForward(out, i + 1, last)

RECURSIVE fillMissingBackward(_, _, _)
fillMissingBackward(out, i, next) ==
    IF i < 1 THEN out
    ELSE IF NumberIsFinite(out[i]) THEN fillMissingBackward(out, i - 1, out[i])
    ELSE IF next # NULL THEN fillMissingBackward([out EXCEPT ![i] = next], i - 1, next)
    ELSE fillMissingBackward(out, i - 1, next)

fillMissing(arr) ==
    LET fwd == fillMissingForward(arr, 1, NULL)
        bwd == fillMissingBackward(fwd, Len(fwd), NULL)
    IN  [i \in 1..Len(bwd) |-> IF NumberIsFinite(bwd[i]) THEN bwd[i] ELSE RInt(0)]

\* the same loop as smoothElevation, with Number.isFinite
movingAverage(arr, windowSize) == smoothElevation(arr, windowSize)

\* if (de > 0) dPlusM += de; else dMinusM += -de
RECURSIVE CliGainLossFrom(_, _, _, _)
CliGainLossFrom(ele, i, dPlus, dMinus) ==
    IF i > Len(ele) THEN <<dPlus, dMinus>>
    ELSE LET de == RSub(ele[i], ele[i - 1])
         IN  IF RLt(RInt(0), de)
                 THEN CliGainLossFrom(ele, i + 1, RAdd(dPlus, de), dMinus)
                 ELSE CliGainLossFrom(ele, i + 1, dPlus, RAdd(dMinus, RNeg(de)))

\* --smooth as given on the command line

\* parseGpxPoints: ele is a number, or null where <ele> is missing or unreadable
CliTracks ==
    UNION {[rawEle : [1..n -> {RInt(e) : e \in EleSet} \cup {NULL}],
            gaps : [1..(n - 1) -> GapSet]] : n \in 2..MaxPts}

InitCli ==
    /\ pc = "options"
    /\ IdleDriver
    /\ inp \in [track : CliTracks, segmentLengthM : {RInt(250)}, smoothingWindow : {1, 2, 3}]
    /\ req = NoReq
    /\ IdleTrack
    /\ segments = <<>>
    /\ IdleStops
    /\ iterations = 0
    /\ IdleSearch
    /\ detailedSegments = <<>>
    /\ totals = [computedMovingSec |-> 0, computedTotalSec |-> RInt(0)]
    /\ IdleReport

\* the check of --step and --smooth
CliCheckOptions ==
    /\ pc = "options"
    /\ pc' = IF \/ RLe(inp.segmentLengthM, RInt(0))
                \/ inp.smoothingWindow < 1
                \/ inp.smoothingWindow % 2 = 0
             THEN "error" ELSE "main"
    /\ UNCHANGED <<driverVars, trackVars, req, segments, stopVars, searchVars,
                   detailedSegments, totals, gainVars, reportVars>>

\* elevation smoothing, cumulative distance, total D+ D- (smoothed)
CliCondition ==
    /\ pc = "main"
    /\ LET eleRaw    == [i \in 1..Len(inp.track.rawEle) |->
                            IF inp.track.rawEle[i] = NULL THEN NAN ELSE inp.track.rawEle[i]]
           eleFilled == fillMissing(eleRaw)
           smoothed  == movingAverage(eleFilled, inp.smoothingWindow)
           gainLoss  == CliGainLossFrom(smoothed, 2, RInt(0), RInt(0))
       IN  /\ eleSmoothed' = smoothed
           /\ cumulativeDistances' = buildCumulativeDistances(inp.track.gaps)
           /\ dPlusTotal' = gainLoss[1]
           /\ dMinusTotal' = gainLoss[2]
    /\ pc' = "totals"
    /\ UNCHANGED <<driverVars, inp, targets, resampled, j, req, segments, stopVars,
                   searchVars, detailedSegments, totals, reportVars>>

NextCli == CliCheckOptions \/ CliCondition

SpecCli == InitCli /\ [][NextCli]_vars

----------------------------------------------------------------------------
(* The section pacing of src/index.ts *)

\* -Infinity: a positive number divided by -0
NEG_INF == <<0, 0, -3>>

\* sections.map of computePacingFromVMA from section k on, with the running
\* cumulativeFatigue and totalTimeSec
RECURSIVE PacingFrom(_, _, _, _, _, _, _, _, _)
PacingFrom(sections, k, cumulativeFatigue, totalTimeSec, paced, vBaseKmh, hillFactor, fatigueFactor, descentPrudence) ==
    IF k > Len(sections) THEN [thrown |-> FALSE, sections |-> paced, totalTimeSec |-> totalTimeSec]
    ELSE
    LET s == sections[k]
    IN  IF RLe(s.distKm, RInt(0))
        THEN PacingFrom(sections, k + 1, cumulativeFatigue, totalTimeSec,
                        Append(paced, [distKm |-> s.distKm, effortKm |-> RInt(0),
                                       targetTimeSec |-> RInt(0),
                                       targetPaceMinPerKm |-> RInt(0)]),
                        vBaseKmh, hillFactor, fatigueFactor, descentPrudence)
        ELSE
        LET fatigueReduction == RSub(RInt(1), cumulativeFatigue)
            descentReduction ==
                IF RLt(RInt(0), s.dMinus)
                THEN RSub(RInt(1), RMul(RDiv(s.dMinus, RInt(100)), descentPrudence))
                ELSE RInt(1)
            vSectionKmh == RMul(RMul(vBaseKmh, fatigueReduction), descentReduction)
            \* a zero product is -0 when its other factor is negative
            negativeZero ==
                RLt(fatigueReduction, RInt(0)) \/ RLt(descentReduction, RInt(0))
            effortKm == RAdd(s.distKm, RMul(RDiv(s.dPlus, RInt(100)), hillFactor))
            quotient ==
                IF vSectionKmh # RInt(0) THEN RDiv(effortKm, vSectionKmh)
                ELSE IF effortKm = RInt(0) THEN NAN
                ELSE IF negativeZero = RLt(RInt(0), effortKm) THEN NEG_INF
                ELSE INF
            timeSec == IF IsNumber(quotient) THEN RMul(quotient, RInt(3600)) ELSE quotient
            paceMinPerKm ==
                IF IsNumber(timeSec) THEN RDiv(RDiv(timeSec, RInt(60)), s.distKm)
                ELSE timeSec
            total ==
                IF IsNumber(totalTimeSec) /\ IsNumber(timeSec)
                THEN RAdd(totalTimeSec, timeSec)
                ELSE IF IsNumber(timeSec) THEN totalTimeSec
                ELSE IF IsNumber(totalTimeSec) \/ totalTimeSec = timeSec THEN timeSec
                ELSE NAN
        IN  PacingFrom(sections, k + 1, RAdd(cumulativeFatigue, fatigueFactor), total,
                       Append(paced, [distKm |-> s.distKm, effortKm |-> effortKm,
                                      targetTimeSec |-> timeSec,
                                      targetPaceMinPerKm |-> paceMinPerKm]),
                       vBaseKmh, hillFactor, fatigueFactor, descentPrudence)

computePacingFromVMA(sections, vmaKmh, vmaPercent, hillFactor, fatigueFactor, descentPrudence) ==
    IF \/ RLe(vmaKmh, RInt(0))
       \/ RLe(vmaPercent, RInt(0)) \/ RLt(RInt(1), vmaPercent)
       \/ RLt(hillFactor, RInt(0))
       \/ RLt(fatigueFactor, RInt(0)) \/ RLt(RInt(1), fatigueFactor)
       \/ RLt(descentPrudence, RInt(0)) \/ RLt(RInt(1), descentPrudence)
    THEN [thrown |-> TRUE, sections |-> <<>>, totalTimeSec |-> RInt(0)]
    ELSE PacingFrom(sections, 1, RInt(0), RInt(0), <<>>, RMul(vmaKmh, vmaPercent),
                    hillFactor, fatigueFactor, descentPrudence)

----------------------------------------------------------------------------
(* Pure-function driver: Init draws a call, one action per function applies it *)

SpeedCalls ==
    [fn : {"speed"}, slope : {Frac(s, 10) : s \in SlopeTenths},
     v : FlatSpeeds, profile : Profiles, prudence : Prudences]

\* the same slope, flat speed and profile at two cautions prudence <= prudence2
Speed2Calls ==
    {c \in [fn : {"speed2"}, slope : {Frac(s, 10) : s \in SlopeTenths},
            v : {RInt(3), Frac(29, 2)}, profile : Profiles,
            prudence : Prudences, prudence2 : Prudences] :
        RLe(c.prudence, c.prudence2)}

\* the same segment list, profile and caution at two flat speeds v < v2
Time2Calls ==
    {c \in [fn : {"time2"}, segs : SegLists, v : FlatSpeeds, v2 : FlatSpeeds,
            profile : Profiles, prudence : {RInt(0), Frac(1, 2)}] :
        RLt(c.v, c.v2)}

\* elevation arrays whose entries are numbers, null, NaN or Infinity
FillCalls ==
    [fn : {"fill"},
     elevations : UNION {[1..n -> {RInt(0), RInt(50), NULL, NAN, INF}] : n \in 0..MaxPts}]

\* time strings split at ":" into 1 to MaxTokens tokens, each read by parseInt
MaxTokens == 4

ParseCalls ==
    [fn : {"parse"}, parts : UNION {[1..n -> {0, 1, 7, 59}] : n \in 1..MaxTokens}]

\* a segment list at one flat speed, flat speeds at and below 0 included
TimeCalls ==
    [fn : {"time"}, segs : SegLists, v : {RInt(-5), RInt(0), RInt(10)},
     profile : Profiles, prudence : {RInt(0), RInt(1)}]

\* numbers of seconds, whole and fractional
FormatCalls ==
    [fn : {"format"},
     seconds : {RInt(0), Frac(1, 2), RInt(59), Frac(297, 5), Frac(119, 2), RInt(60),
                RInt(3599), Frac(7199, 2), RInt(3600), Frac(14645, 4), RInt(86399),
                RInt(360000)}]

\* section lists of 1 to MaxSections sections (distance, gain and loss of
\* each, none negative) with arguments inside and outside the accepted ranges
MaxSections == 2

PacingCalls ==
    [fn : {"pacing"},
     sections : UNION {[1..n -> [distKm : {RInt(0), RInt(10)},
                                 dPlus : {RInt(0), RInt(100)},
                                 dMinus : {RInt(0), RInt(100), RInt(200)}]] :
                       n \in 1..MaxSections},
     vmaKmh : {RInt(0), RInt(16)}, vmaPercent : {Frac(1, 2), Frac(3, 2)},
     hillFactor : {RInt(1)}, fatigueFactor : {RInt(0), Frac(1, 2), RInt(1)},
     descentPrudence : {RInt(0), RInt(1)}]

InitFn ==
    /\ pc = "call"
    /\ call \in SpeedCalls \cup Speed2Calls \cup Time2Calls \cup FillCalls \cup ParseCalls
                \cup TimeCalls \cup FormatCalls \cup PacingCalls
    /\ ret = INF
    /\ inp = [track |-> [rawEle |-> <<>>, gaps |-> <<>>]]
    /\ req = NoReq
    /\ IdleTrack
    /\ segments = <<>>
    /\ IdleStops
    /\ iterations = 0
    /\ IdleSearch
    /\ detailedSegments = <<>>
    /\ totals = [computedMovingSec |-> 0, computedTotalSec |-> RInt(0)]
    /\ IdleReport

pipelineVars == <<trackVars, req, segments, stopVars, searchVars, detailedSegments, totals, gainVars, reportVars>>

ApplySpeed ==
    /\ pc = "call"
    /\ call.fn = "speed"
    /\ ret' = calculateSpeedForSlope(call.slope, call.v, call.profile, call.prudence)
    /\ pc' = "ret"
    /\ UNCHANGED <<call, pipelineVars>>

ApplySpeed2 ==
    /\ pc = "call"
    /\ call.fn = "speed2"
    /\ ret' = <<calculateSpeedForSlope(call.slope, call.v, call.profile, call.prudence),
                calculateSpeedForSlope(call.slope, call.v, call.profile, call.prudence2)>>
    /\ pc' = "ret"
    /\ UNCHANGED <<call, pipelineVars>>

ApplyTime2 ==
    /\ pc = "call"
    /\ call.fn = "time2"
    /\ ret' = <<calculateMovingTimeForVflat(call.segs, call.v, call.profile, call.prudence),
                calculateMovingTimeForVflat(call.segs, call.v2, call.profile, call.prudence)>>
    /\ pc' = "ret"
    /\ UNCHANGED <<call, pipelineVars>>

ApplyFill ==
    /\ pc = "call"
    /\ call.fn = "fill"
    /\ ret' = fillMissingElevation(call.elevations)
    /\ pc' = "ret"
    /\ UNCHANGED <<call, pipelineVars>>

ApplyParse ==
    /\ pc = "call"
    /\ call.fn = "parse"
    /\ ret' = IF parseTimeThrows(call.parts)
              THEN [thrown |-> TRUE, value |-> 0]
              ELSE [thrown |-> FALSE, value |-> parseTimeToSeconds(call.parts)]
    /\ pc' = "ret"
    /\ UNCHANGED <<call, pipelineVars>>

ApplyTime ==
    /\ pc = "call"
    /\ call.fn = "time"
    /\ ret' = calculateMovingTimeForVflat(call.segs, call.v, call.profile, call.prudence)
    /\ pc' = "ret"
    /\ UNCHANGED <<call, pipelineVars>>

ApplyFormat ==
    /\ pc = "call"
    /\ call.fn = "format"
    /\ ret' = formatTime(call.seconds)
    /\ pc' = "ret"
    /\ UNCHANGED <<call, pipelineVars>>

ApplyPacing ==
    /\ pc = "call"
    /\ call.fn = "pacing"
    /\ ret' = computePacingFromVMA(call.sections, call.vmaKmh, call.vmaPercent,
                                    call.hillFactor, call.fatigueFactor, call.descentPrudence)
    /\ pc' = "ret"
    /\ UNCHANGED <<call, pipelineVars>>

NextFn ==
    \/ ApplySpeed \/ ApplySpeed2 \/ ApplyTime2 \/ ApplyFill \/ ApplyParse \/ ApplyTime
    \/ ApplyFormat \/ ApplyPacing

SpecFn == InitFn /\ [][NextFn]_vars

Returned(fn) == pc = "ret" /\ call.fn = fn

----------------------------------------------------------------------------
(* The slope table of the specification, row by row *)

Between(s, lower, lowerClosed, upper, upperClosed) ==
    /\ IF lowerClosed THEN RLe(RInt(lower), s) ELSE RLt(RInt(lower), s)
    /\ IF upperClosed THEN RLe(s, RInt(upper)) ELSE RLt(s, RInt(upper))

RangePick(minHundredths, maxHundredths, caution) ==
    LET mn == Frac(minHundredths, 100)
        mx == Frac(maxHundredths, 100)
    IN  RSub(mx, RMul(caution, RSub(mx, mn)))

\* <<slower bound, faster bound>> in hundredths of km/h of the range-pick
\* bracket that holds the slope, <<>> in a bracket that follows the flat speed
TableRange(s, profile) ==
    IF Between(s, 12, FALSE, 15, TRUE)
        THEN IF profile = "trained" THEN <<545, 600>> ELSE <<462, 545>>
    ELSE IF Between(s, 15, FALSE, 20, TRUE)
        THEN IF profile = "trained" THEN <<480, 545>> ELSE <<400, 462>>
    ELSE IF RLt(RInt(20), s)
        THEN IF profile = "trained" THEN <<400, 462>> ELSE <<333, 400>>
    ELSE IF Between(s, -8, TRUE, -6, FALSE) THEN <<545, 667>>
    ELSE IF Between(s, -12, TRUE, -8, FALSE) THEN <<462, 600>>
    ELSE IF RLt(s, RInt(-12)) THEN <<400, 545>>
    ELSE <<>>

TableSpeed(s, v, profile, caution) ==
    LET a == RAbs(s)
        f == RSub(RInt(1), RMul(Frac(2, 100), a))
    IN  IF TableRange(s, profile) # <<>>
            THEN RangePick(TableRange(s, profile)[1], TableRange(s, profile)[2], caution)
        ELSE IF Between(s, -1, TRUE, 1, TRUE) THEN v
        ELSE IF Between(s, 1, FALSE, 12, TRUE)
            THEN RDiv(v, RAdd(RInt(1), RMul(Frac(4, 100), s)))
        ELSE IF Between(s, -3, TRUE, -1, FALSE) THEN RDiv(v, f)
        ELSE IF Between(s, -4, TRUE, -3, FALSE) THEN RDiv(v, RMul(f, Frac(105, 100)))
        ELSE RDiv(v, RMul(f, Frac(110, 100)))

----------------------------------------------------------------------------
(* Claims about the pure functions, checked under SpecFn *)

\* C3: for a fixed segment list, profile and caution and two flat speeds
\* v1 < v2 within the calibration bounds, the moving time at v2 is at most
\* the moving time at v1.
C3_MovingTimeMonotone ==
    Returned("time2") =>
        /\ IsFinite(ret[1]) /\ IsFinite(ret[2])
        /\ RLe(ret[2], ret[1])

\* a list with a flat-speed segment and a fixed-speed (range-pick) segment,
\* evaluated at two speeds, the faster being strictly quicker
C3_Witness ==
    /\ Returned("time2")
    /\ Len(call.segs) = 2
    /\ call.segs[1].slopePct = RInt(5)
    /\ call.segs[2].slopePct = RInt(25)
    /\ RLt(ret[2], ret[1])

\* C7: speedForSlope returns the value of the table's bracket that holds the
\* slope, the edges 1, 12, 15, 20 closing their bracket from above and the
\* edges -1, -3, -4, -6, -8, -12 being the lower bound of theirs; every slope
\* in [-1, 1] returns the flat speed whatever the profile and the caution.
C7_SpeedMatchesTable ==
    Returned("speed") =>
        /\ ret = TableSpeed(call.slope, call.v, call.profile, call.prudence)
        /\ Between(call.slope, -1, TRUE, 1, TRUE) => ret = call.v

\* slope exactly 12 % is still in (1, 12]: flat speed 10 gives 10 / 1.48
C7_Witness ==
    /\ Returned("speed")
    /\ call.slope = RInt(12)
    /\ call.v = RInt(10)
    /\ ret = Frac(1000, 148)

\* C8: caution 0 is never slower than caution 1; in every range-pick bracket
\* caution 0 gives exactly the faster bound and caution 1 exactly the slower
\* bound, and the speed does not increase with the caution.
C8_CautionReducesSpeed ==
    Returned("speed2") =>
        LET range == TableRange(call.slope, call.profile)
        IN  /\ RLe(ret[2], ret[1])
            /\ (range # <<>> /\ call.prudence = RInt(0)) => ret[1] = Frac(range[2], 100)
            /\ (range # <<>> /\ call.prudence2 = RInt(1)) => ret[2] = Frac(range[1], 100)
            /\ range = <<>> => ret[1] = ret[2]

\* a range-pick bracket evaluated at cautions 0 and 1: strictly slower at 1
C8_Witness ==
    /\ Returned("speed2")
    /\ call.slope = RInt(-8)
    /\ call.prudence = RInt(0)
    /\ call.prudence2 = RInt(1)
    /\ ret = <<Frac(667, 100), Frac(545, 100)>>

----------------------------------------------------------------------------
(* Claims about findVflatForTargetTime, checked under SpecCalib *)

RECURSIVE Pow2(_)
Pow2(k) == IF k = 0 THEN 1 ELSE 2 * Pow2(k - 1)

Searching == pc \in {"search", "found"}

\* moving time of the current segment list at flat speed v
MovingTimeAt(v) == calculateMovingTimeForVflat(segments, v, req.profile, req.prudence)

\* totalTime(vMax) <= target <= totalTime(vMin)
Feasible ==
    /\ TimeLe(MovingTimeAt(RInt(vMax)), targetMovingSec)
    /\ TimeLe(targetMovingSec, MovingTimeAt(RInt(vMin)))

Encloses(l, h) ==
    /\ TimeLe(MovingTimeAt(h), targetMovingSec)
    /\ TimeLe(targetMovingSec, MovingTimeAt(l))

\* C4: when totalTime(vMax) <= target <= totalTime(vMin) holds at the start,
\* the bracket encloses the target after every iteration; lo is raised only to
\* a midpoint whose time exceeds the target, hi is lowered only to a midpoint
\* whose time does not, and an iteration moves exactly one of the two.
C4_BracketEnclosesTarget ==
    /\ []((Searching /\ Feasible) => Encloses(lo, hi))
    /\ [][/\ lo' # lo => (TimeGt(MovingTimeAt(lo'), targetMovingSec) /\ hi' = hi)
          /\ hi' # hi => (TimeLe(MovingTimeAt(hi'), targetMovingSec) /\ lo' = lo)
          /\ iter' # iter => (lo' # lo) # (hi' # hi)]_vars

\* a feasible search that has moved both ends of the bracket, the target
\* strictly between the times at the two ends
C4_Witness ==
    /\ pc = "found"
    /\ Feasible
    /\ lo # RInt(vMin)
    /\ hi # RInt(vMax)
    /\ TimeGt(MovingTimeAt(lo), targetMovingSec)
    /\ RLt(MovingTimeAt(hi), targetMovingSec)

\* C5: the search runs exactly `iterations` midpoint evaluations and cannot
\* stop earlier; vMin <= lo <= hi <= vMax throughout, lo never decreases, hi
\* never increases, every iteration halves hi - lo, and the value returned is
\* the midpoint of the final bracket, whose width is (vMax - vMin) / 2^iterations.
C5_FixedIterationBisection ==
    /\ [](Searching =>
            /\ RLe(RInt(vMin), lo) /\ RLe(lo, hi) /\ RLe(hi, RInt(vMax))
            /\ iter <= iterations
            /\ RSub(hi, lo) = Frac(vMax - vMin, Pow2(iter)))
    /\ [](pc = "found" =>
            /\ iter = iterations
            /\ RSub(hi, lo) = Frac(vMax - vMin, Pow2(iterations))
            /\ RAdd(vFlatKmh, vFlatKmh) = RAdd(lo, hi))
    /\ [][/\ RLe(lo, lo') /\ RLe(hi', hi)
          /\ iter' \in {iter, iter + 1}
          /\ pc' = "found" => (iter = iterations /\ lo' = lo /\ hi' = hi)
          /\ iter' = iter + 1 => RAdd(RSub(hi', lo'), RSub(hi', lo')) = RSub(hi, lo)]_vars

\* a search of MaxIter iterations that has returned, both ends moved
C5_Witness ==
    /\ pc = "found"
    /\ iterations = MaxIter
    /\ iter = MaxIter
    /\ RLt(RInt(vMin), lo)
    /\ RLt(hi, RInt(vMax))

\* |movingTime(vFlatKmh) - target|
TimeError == RAbs(RSub(MovingTimeAt(vFlatKmh), targetMovingSec))

\* C6 as stated: the moving time at the returned flat speed is within the
\* final bracket width (vMax - vMin) / 2^iterations of the target (here even
\* for a target that the bounds bracket).
C6_Original_TimeWithinBracketWidth ==
    (pc = "found" /\ Feasible) =>
        RLe(TimeError, Frac(vMax - vMin, Pow2(iterations)))

\* C6 amended: when totalTime(vMax) <= target <= totalTime(vMin), the moving
\* time at the returned flat speed and the target both lie between
\* movingTime(hi) and movingTime(lo) of the final bracket, so they differ by at
\* most movingTime(lo) - movingTime(hi); the bracket width
\* (vMax - vMin) / 2^iterations bounds the distance of the returned speed
\* from either end of the bracket, not the time.
C6_TimeWithinBracketTimes ==
    (pc = "found" /\ Feasible) =>
        /\ RLe(MovingTimeAt(hi), MovingTimeAt(vFlatKmh))
        /\ RLe(MovingTimeAt(vFlatKmh), MovingTimeAt(lo))
        /\ RLe(MovingTimeAt(hi), targetMovingSec)
        /\ RLe(targetMovingSec, MovingTimeAt(lo))
        /\ RLe(RSub(vFlatKmh, lo), Frac(vMax - vMin, Pow2(iterations)))
        /\ RLe(RSub(hi, vFlatKmh), Frac(vMax - vMin, Pow2(iterations)))

\* a feasible search of MaxIter iterations that returned a speed whose time
\* misses the target by more than the bracket width, the time and the target
\* both strictly inside the times of the bracket's ends
C6_Witness ==
    /\ pc = "found"
    /\ Feasible
    /\ iterations = MaxIter
    /\ RLt(Frac(vMax - vMin, Pow2(iterations)), TimeError)
    /\ RLt(MovingTimeAt(hi), MovingTimeAt(vFlatKmh))
    /\ RLt(MovingTimeAt(vFlatKmh), MovingTimeAt(lo))
    /\ RLt(MovingTimeAt(hi), targetMovingSec)
    /\ RLt(targetMovingSec, MovingTimeAt(lo))

----------------------------------------------------------------------------
(* Claims about calculatePacing, checked under Spec *)

SegmentsBuilt ==
    pc \in {"stops", "error", "search", "found", "detailed", "grouped", "staged", "done"}

TotalDistanceM == cumulativeDistances[Len(cumulativeDistances)]

RECURSIVE SumLengthM(_, _)
SumLengthM(segs, k) ==
    IF k > Len(segs) THEN RInt(0) ELSE RAdd(segs[k].lengthM, SumLengthM(segs, k + 1))

\* Math.ceil
RCeil(x) == IF x[2] = 0 THEN x[1] ELSE x[1] + 1

\* C9: for a track of at least 2 points, the resampled points start at
\* distance 0 and end at exactly the total cumulative distance, and the
\* lengths of the segments between them sum to the total cumulative distance.
C9_ResampleRoundTrip ==
    SegmentsBuilt =>
        /\ Len(resampled) >= 1
        /\ resampled[1].distanceM = RInt(0)
        /\ resampled[Len(resampled)].distanceM = TotalDistanceM
        /\ Len(segments) = Len(resampled) - 1
        /\ SumLengthM(segments, 1) = TotalDistanceM

\* a track of three points whose length is no multiple of the step: several
\* segments, the last one shorter than the step
C9_Witness ==
    /\ SegmentsBuilt
    /\ Len(inp.track.gaps) >= 2
    /\ Len(segments) >= 2
    /\ segments[Len(segments)].lengthM # inp.segmentLengthM
    /\ SumLengthM(segments, 1) = TotalDistanceM

\* C10: consecutive resampled points have strictly increasing distances:
\* every segment has length exactly stepM except the last, whose length is
\* greater than 0 and at most stepM; the segment count is ceil(total / stepM).
C10_SegmentLengths ==
    SegmentsBuilt =>
        /\ \A k \in 1..Len(segments) :
              /\ RLt(RInt(0), segments[k].lengthM)
              /\ RLe(segments[k].lengthM, inp.segmentLengthM)
              /\ k < Len(segments) => segments[k].lengthM = inp.segmentLengthM
        /\ \A k \in 1..(Len(resampled) - 1) :
              RLt(resampled[k].distanceM, resampled[k + 1].distanceM)
        /\ Len(segments) = RCeil(RDiv(TotalDistanceM, inp.segmentLengthM))

\* a track whose length is an exact multiple of the step: the last segment
\* has the full step length and no zero-length segment follows it
C10_Witness ==
    /\ SegmentsBuilt
    /\ Len(segments) >= 2
    /\ RMul(RInt(Len(segments)), inp.segmentLengthM) = TotalDistanceM
    /\ segments[Len(segments)].lengthM = inp.segmentLengthM

\* the request of the scenario: target "01:00:00", trained, caution 0.5, no
\* checkpoints, no rest
ScenarioRequest ==
    [targetTime |-> <<1, 0, 0>>, profile |-> "trained", prudence |-> Frac(1, 2),
     checkpoints |-> <<>>, restPeriods |-> <<0, 0>>]

ScenarioDone == pc = "done" /\ inp = ScenarioInput /\ req = ScenarioRequest

\* the rounded per-segment times at flat speed v, summed
RoundedMovingSecAt(v) ==
    SumTimeSec([k \in 1..Len(segments) |->
                   detailSegment(segments[k], v, req.profile, req.prudence)], 1)

\* C1 as stated: every accepted input yields a plan whose computedTotalSec
\* equals the target total time in seconds (here even for a target that the
\* calibration bounds bracket).
C1_Original_SumsToTarget ==
    (pc = "done" /\ Feasible) => totals.computedTotalSec = RInt(targetTotalSec)

\* C1 amended: computedTotalSec is the total stop time plus the sum of the
\* per-segment times rounded to whole seconds at the calibrated flat speed: it
\* is within half a second per segment of movingTime(vFlat) + stop time, and,
\* when totalTime(vMax) <= target <= totalTime(vMin), the computed moving time
\* lies within half a second per segment of the interval
\* [movingTime(hi), movingTime(lo)] of the final bracket, which holds the
\* target moving time.
C1_SumsToTargetUpToRounding ==
    pc = "done" =>
        LET slack  == Frac(Len(segments), 2)
            moving == RInt(totals.computedMovingSec)
            drift  == RAbs(RSub(moving, MovingTimeAt(vFlatKmh)))
        IN  /\ totals.computedTotalSec = RAdd(moving, totalStopSec)
            /\ targetMovingSec = RSub(RInt(targetTotalSec), totalStopSec)
            /\ RLe(drift, slack)
            /\ Feasible =>
                  /\ RLe(RSub(MovingTimeAt(hi), slack), moving)
                  /\ RLe(moving, RAdd(MovingTimeAt(lo), slack))
                  /\ RLe(MovingTimeAt(hi), targetMovingSec)
                  /\ RLe(targetMovingSec, MovingTimeAt(lo))

\* a feasible plan with stops whose rounded segment times miss the target
C1_Witness ==
    /\ pc = "done"
    /\ Feasible
    /\ RLt(RInt(0), totalStopSec)
    /\ Len(segments) >= 2
    /\ totals.computedTotalSec # RInt(targetTotalSec)
    /\ RLt(RInt(vMin), lo)
    /\ RLt(hi, RInt(vMax))

\* C2 as stated: the scenario's plan has exactly one segment, its slope is
\* above 20 % and the computed total time is 3600 s.
C2_Original_Scenario ==
    ScenarioDone =>
        /\ Len(detailedSegments) = 1
        /\ \A k \in 1..Len(detailedSegments) : RLt(RInt(20), detailedSegments[k].slopePct)
        /\ totals.computedTotalSec = RInt(3600)

\* C2 amended: the scenario's track is 1111.949 m long, so the plan has five
\* segments (four of 250 m and a last shorter one); the window of 9 averages
\* the two elevations to 50 m each, so every slope is 0 and every segment runs
\* at the flat speed; the target is slower than the slowest flat speed allows,
\* so lo stays at vMin and the computed total is at most the rounded moving
\* time at vMin = 3 km/h, 1334 s, and not 3600 s.
C2_ScenarioAsComputed ==
    ScenarioDone =>
        /\ Len(detailedSegments) = 5
        /\ \A k \in 1..4 : detailedSegments[k].lengthM = RInt(250)
        /\ detailedSegments[5].lengthM = Frac(111949, 1000)
        /\ eleSmoothed = <<RInt(50), RInt(50)>>
        /\ \A k \in 1..5 :
              /\ detailedSegments[k].slopePct = RInt(0)
              /\ detailedSegments[k].speedKmh = vFlatKmh
        /\ lo = RInt(vMin)
        /\ RoundedMovingSecAt(RInt(vMin)) = 1334
        /\ RLe(totals.computedTotalSec, RInt(1334))
        /\ totals.computedTotalSec # RInt(3600)

\* the scenario has run to its result
C2_Witness ==
    /\ ScenarioDone
    /\ targetTotalSec = 3600
    /\ Len(detailedSegments) = 5
    /\ RLt(RInt(0), totals.computedTotalSec)

----------------------------------------------------------------------------
(* Claims about the per-kilometre entries and the stages, checked under     *)
(* SpecReport                                                               *)

Grouped == pc \in {"grouped", "staged", "done"}
Staged  == pc \in {"staged", "done"}

\* the sum of the rounded times of the segments whose index is in S
RECURSIVE SumTimeOver(_)
SumTimeOver(S) ==
    IF S = {} THEN 0
    ELSE LET k == CHOOSE x \in S : TRUE
         IN  detailedSegments[k].timeSec + SumTimeOver(S \ {k})

\* the segments whose midpoint lies in [fromM, toM)
MidpointIn(fromM, toM) ==
    {k \in 1..Len(detailedSegments) :
        LET mid == RDiv(RAdd(detailedSegments[k].fromM, detailedSegments[k].toM), RInt(2))
        IN  RLe(fromM, mid) /\ RLt(mid, toM)}

\* C11: each per-kilometre entry's timeSec is the integer sum of the rounded
\* timeSec of the segments whose midpoint lies in that kilometre
\* (floor(midpoint / 1000) = km - 1), every segment lies in the kilometre of
\* one entry, and each stage's movingSec is the integer sum of the rounded
\* timeSec of the segments whose midpoint lies in [fromM, toM) of the stage.
C11_AggregateTimesAreSegmentSums ==
    /\ Grouped =>
          /\ \A e \in 1..Len(perKm) :
                perKm[e].timeSec =
                    SumTimeOver(MidpointIn(RInt((perKm[e].km - 1) * 1000),
                                           RInt(perKm[e].km * 1000)))
          /\ \A k \in 1..Len(detailedSegments) :
                \E e \in 1..Len(perKm) :
                    k \in MidpointIn(RInt((perKm[e].km - 1) * 1000), RInt(perKm[e].km * 1000))
          /\ \A e, f \in 1..Len(perKm) : e < f => perKm[e].km < perKm[f].km
    /\ Staged =>
          \A i \in 1..Len(steps) :
              steps[i].movingSec =
                  SumTimeOver(MidpointIn(RMul(steps[i].fromKm, RInt(1000)),
                                         RMul(steps[i].toKm, RInt(1000))))

\* a plan with two kilometre entries, one of them of several segments, and two
\* stages with segments, one segment's midpoint lying on the stage boundary
C11_Witness ==
    /\ pc = "done"
    /\ Len(perKm) >= 2
    /\ \E e \in 1..Len(perKm) :
          Cardinality(MidpointIn(RInt((perKm[e].km - 1) * 1000), RInt(perKm[e].km * 1000))) >= 2
    /\ \E i, i2 \in 1..Len(steps) :
          i # i2 /\ steps[i].movingSec > 0 /\ steps[i2].movingSec > 0
    /\ \E i \in 1..Len(steps), k \in 1..Len(detailedSegments) :
          RAdd(detailedSegments[k].fromM, detailedSegments[k].toM)
              = RMul(steps[i].toKm, RInt(2000))

----------------------------------------------------------------------------
----------------------------------------------------------------------------
\* no part of a plan has been produced
NoPlan ==
    /\ vFlatKmh = NULL
    /\ detailedSegments = <<>>
    /\ perKm = <<>>
    /\ steps = <<>>
    /\ totals = [computedMovingSec |-> 0, computedTotalSec |-> RInt(0)]

TargetRead == pc \in {"error", "search", "found", "detailed", "grouped", "staged", "done"}

StopsReachTarget == RLe(RInt(targetTotalSec), totalStopSec)

\* C13: whenever the total stop time is at least the target total time,
\* calculatePacing ends in its error and no part of a plan is produced; it
\* goes on to the search only when the stops leave time for moving.
C13_StopsAtLeastTargetFail ==
    /\ (TargetRead /\ StopsReachTarget) => (pc = "error" /\ NoPlan)
    /\ pc = "error" => StopsReachTarget

\* the stops take exactly the target time (1 min + 2 min of a 0:03:00 target)
C13_Witness ==
    /\ pc = "error"
    /\ totalStopSec = RInt(targetTotalSec)
    /\ targetTotalSec = 180

----------------------------------------------------------------------------
\* C14 (as stated; the code departs from it): calibration fails, returning
\* no flat speed, when the moving time at vMax exceeds the target and also
\* when the moving time at vMin is below the target.
C14_InfeasibleTargetFails ==
    (Searching /\ ~Feasible) => pc # "found"

----------------------------------------------------------------------------
TotalDistanceKm == RDiv(TotalDistanceM, RInt(1000))

\* the checkpoints of the request placed at or beyond the end of the track
BeyondTotal == {k \in 1..Len(req.checkpoints) : RLe(TotalDistanceKm, req.checkpoints[k][1])}

\* the stop time of the checkpoints placed before the end of the track
RECURSIVE SumStopsBefore(_, _)
SumStopsBefore(checkpoints, k) ==
    IF k > Len(checkpoints) THEN RInt(0)
    ELSE RAdd(IF RLt(checkpoints[k][1], TotalDistanceKm)
                THEN RMul(checkpoints[k][2], RInt(60)) ELSE RInt(0),
              SumStopsBefore(checkpoints, k + 1))

\* C15 (as stated; the code departs from it): a request with a checkpoint at
\* or beyond the total distance fails, so no plan is completed for it, and
\* such a checkpoint contributes neither stop time nor a stage boundary.
C15_CheckpointBeyondTotalRejected ==
    /\ (TargetRead /\ BeyondTotal # {}) => pc = "error"
    /\ TargetRead =>
          totalStopSec = RAdd(SumStopsBefore(req.checkpoints, 1),
                              RInt(req.restPeriods[1] * req.restPeriods[2] * 60))
    /\ Staged => \A i \in 1..Len(steps) : RLe(steps[i].toKm, TotalDistanceKm)

----------------------------------------------------------------------------
\* C16 (as stated; the code departs from it): a smoothingWindow that is even
\* or below 1 is rejected before any smoothing, so once the elevations have
\* been smoothed the window is odd and at least 1.
C16_EvenWindowRejected ==
    pc # "start" => (inp.smoothingWindow % 2 = 1 /\ inp.smoothingWindow >= 1)

----------------------------------------------------------------------------
\* C17: parseTimeToSeconds returns h*3600 + m*60 for two tokens h, m, returns
\* h*3600 + m*60 + s for three tokens h, m, s, and throws for every other
\* number of tokens.
C17_ParseByTokenCount ==
    Returned("parse") =>
        LET parts == call.parts
        IN  /\ Len(parts) = 2 =>
                  (~ret.thrown /\ ret.value = parts[1] * 3600 + parts[2] * 60)
            /\ Len(parts) = 3 =>
                  (~ret.thrown /\ ret.value = parts[1] * 3600 + parts[2] * 60 + parts[3])
            /\ Len(parts) \notin {2, 3} => ret.thrown

\* "1:07:59" parsed to 4079 s
C17_Witness ==
    /\ Returned("parse")
    /\ call.parts = <<1, 7, 59>>
    /\ ~ret.thrown
    /\ ret.value = 4079

----------------------------------------------------------------------------
\* the checkpoints of the request placed less than 0.1 km from position km
Within100m(km) ==
    {k \in 1..Len(req.checkpoints) :
        RLt(RAbs(RSub(req.checkpoints[k][1], km)), Frac(1, 10))}

----------------------------------------------------------------------------
\* C19 (as stated; the code departs from it): for a request whose checkpoints
\* all lie before the total distance, the stages tile the course: the first
\* stage starts at 0, each stage starts where the previous one ended, the two
\* boundaries of a stage differ by more than 0.001 km, and the last stage ends
\* at the total distance.
C19_StagesTileCourse ==
    (Staged /\ BeyondTotal = {}) =>
        /\ Len(steps) >= 1
        /\ steps[1].fromKm = RInt(0)
        /\ \A i \in 1..(Len(steps) - 1) : steps[i + 1].fromKm = steps[i].toKm
        /\ \A i \in 1..Len(steps) :
              RLt(Frac(1, 1000), RSub(steps[i].toKm, steps[i].fromKm))
        /\ steps[Len(steps)].toKm = TotalDistanceKm

----------------------------------------------------------------------------
\* the raw elevations and the raw distance from the start, by point
RawEle(i) == inp.track.rawEle[i]

RECURSIVE RawDistanceM(_)
RawDistanceM(i) == IF i = 1 THEN RInt(0) ELSE RAdd(RawDistanceM(i - 1), inp.track.gaps[i - 1])

Rise(a, b) == IF RLt(a, b) THEN RSub(b, a) ELSE RInt(0)
Drop(a, b) == IF RLt(b, a) THEN RSub(a, b) ELSE RInt(0)

\* rise and drop of the raw elevations, summed over the pairs of consecutive
\* points i - 1, i that both belong to P
RECURSIVE RawRise(_, _)
RawRise(P, i) ==
    IF i > Len(inp.track.rawEle) THEN RInt(0)
    ELSE RAdd(IF i \in P /\ (i - 1) \in P THEN Rise(RawEle(i - 1), RawEle(i)) ELSE RInt(0),
              RawRise(P, i + 1))

RECURSIVE RawDrop(_, _)
RawDrop(P, i) ==
    IF i > Len(inp.track.rawEle) THEN RInt(0)
    ELSE RAdd(IF i \in P /\ (i - 1) \in P THEN Drop(RawEle(i - 1), RawEle(i)) ELSE RInt(0),
              RawDrop(P, i + 1))

AllPoints == 1..Len(inp.track.rawEle)

\* the raw points whose distance from the start lies in [fromKm, toKm]
PointsOfStage(st) ==
    {i \in AllPoints :
        /\ RLe(RMul(st.fromKm, RInt(1000)), RawDistanceM(i))
        /\ RLe(RawDistanceM(i), RMul(st.toKm, RInt(1000)))}

\* In calculatePacing of the browser script the gain and loss totals and the
\* gain and loss of every stage are sums over the raw elevations (a positive
\* difference adds to the gain, the absolute value of a negative one to the
\* loss, a zero difference to neither), whatever the smoothingWindow and the
\* smoothed elevations are; smoothing gives one elevation per point and leaves
\* the distances from the start those of the raw points.
BrowserGainLossFromRawElevations ==
    /\ pc # "start" =>
          /\ dPlusTotal = RawRise(AllPoints, 2)
          /\ dMinusTotal = RawDrop(AllPoints, 2)
          /\ Len(eleSmoothed) = Len(inp.track.rawEle)
          /\ \A i \in AllPoints : cumulativeDistances[i] = RawDistanceM(i)
    /\ Staged =>
          \A k \in 1..Len(steps) :
              /\ steps[k].stepDPlus = RawRise(PointsOfStage(steps[k]), 2)
              /\ steps[k].stepDMinus = RawDrop(PointsOfStage(steps[k]), 2)
              /\ steps[k].dPlusM = RRound(steps[k].stepDPlus)
              /\ steps[k].dMinusM = RRound(steps[k].stepDMinus)

\* a plan of two stages over a track that climbs and descends, smoothed with
\* window 3 to elevations that differ from the raw ones
BrowserGainLossWitness ==
    /\ pc = "done"
    /\ inp.smoothingWindow = 3
    /\ eleSmoothed # inp.track.rawEle
    /\ RLt(RInt(0), dPlusTotal)
    /\ RLt(RInt(0), dMinusTotal)
    /\ Len(steps) = 2
    /\ RLt(RInt(0), steps[1].stepDPlus)
    /\ RLt(RInt(0), steps[2].stepDMinus)

\* C20 (as stated; the command-line variant departs from it): for a track
\* whose points all have an elevation, the gain and loss totals are the same
\* for every smoothingWindow: they are the sums of the positive and of the
\* absolute negative differences of the raw elevations.
C20_TotalsSameForEveryWindow ==
    (pc = "totals" /\ \A i \in AllPoints : IsNumber(RawEle(i))) =>
        /\ dPlusTotal = RawRise(AllPoints, 2)
        /\ dMinusTotal = RawDrop(AllPoints, 2)

----------------------------------------------------------------------------
\* the slopes whose speed follows the flat speed: the brackets from -6 % to 12 %
FollowsFlatSpeed(seg) == Between(seg.slopePct, -6, TRUE, 12, TRUE)

\* C21 (as stated): for a fixed non-empty segment list, profile and caution
\* and two flat speeds v1 < v2 within the bounds, the moving time at v2 is
\* strictly below the moving time at v1.
C21_Original_StrictlyDecreasing ==
    Returned("time2") => RLt(ret[2], ret[1])

\* C21 (amended): the moving time at v2 is at most the moving time at v1; it
\* is strictly below when some segment of positive length has a slope from
\* -6 % to 12 %, and it is equal when every segment has a slope below -6 % or
\* above 12 %, where the speed does not depend on the flat speed.
C21_DecreasingWhereSpeedFollows ==
    Returned("time2") =>
        /\ RLe(ret[2], ret[1])
        /\ (\E k \in 1..Len(call.segs) :
                FollowsFlatSpeed(call.segs[k]) /\ RLt(RInt(0), call.segs[k].lengthM))
              => RLt(ret[2], ret[1])
        /\ (\A k \in 1..Len(call.segs) : ~FollowsFlatSpeed(call.segs[k]))
              => ret[2] = ret[1]

\* two segments at 25 % and -10 %: the same moving time at both flat speeds
C21_Witness ==
    /\ Returned("time2")
    /\ Len(call.segs) = 2
    /\ call.segs[1].slopePct = RInt(25)
    /\ call.segs[2].slopePct = RInt(-10)
    /\ RLt(call.v, call.v2)
    /\ ret[2] = ret[1]

----------------------------------------------------------------------------
\* the sum of the values of f at the indices in S
RECURSIVE SumAt(_, _)
SumAt(f, S) ==
    IF S = {} THEN RInt(0)
    ELSE LET k == CHOOSE x \in S : TRUE
         IN  RAdd(f[k], SumAt(f, S \ {k}))

\* C22: in the conditioning of calculatePacing, for an odd window size the
\* smoothed sequence has the length of the filled one and no null entry, and
\* entry i is the mean of the filled values at the indices i - half .. i + half
\* that lie inside the array; with window size 1 the output is the input.
C22_SmoothIsClippedMean ==
    (pc # "start" /\ inp.smoothingWindow % 2 = 1) =>
        LET filled == fillMissingElevation(inp.track.rawEle)
            half   == inp.smoothingWindow \div 2
            n      == Len(filled)
        IN  /\ Len(eleSmoothed) = n
            /\ \A i \in 1..n :
                  LET near == {k \in 1..n : i - half <= k /\ k <= i + half}
                  IN  /\ IsNumber(eleSmoothed[i])
                      /\ eleSmoothed[i] = RDiv(SumAt(filled, near), RInt(Cardinality(near)))
            /\ inp.smoothingWindow = 1 => eleSmoothed = filled

\* three points 0, 50, 0 smoothed with window 3: 25 at both ends (mean of two
\* values, the window being clipped) and 50/3 in the middle
C22_Witness ==
    /\ pc = "done"
    /\ inp.smoothingWindow = 3
    /\ inp.track.rawEle = <<RInt(0), RInt(50), RInt(0)>>
    /\ eleSmoothed = <<RInt(25), Frac(50, 3), RInt(25)>>

----------------------------------------------------------------------------
\* x lies between a and b, in whichever order they are
RBetween(x, a, b) == (RLe(a, x) /\ RLe(x, b)) \/ (RLe(b, x) /\ RLe(x, a))

\* the last target handled by resamplePoints is bracketed by the points j - 1
\* and j of the code, which are cumulativeDistances[j] and [j + 1] here
BracketHolds ==
    (pc = "resample" /\ Len(resampled) >= 1) =>
        LET p  == resampled[Len(resampled)]
            d0 == cumulativeDistances[j]
            d1 == cumulativeDistances[j + 1]
        IN  /\ RLe(d0, p.distanceM) /\ RLe(p.distanceM, d1)
            /\ RBetween(p.ele, eleSmoothed[j], eleSmoothed[j + 1])
            /\ d0 = d1 => p.ele = eleSmoothed[j]
            /\ p.distanceM = d0 => p.ele = eleSmoothed[j]
            /\ (p.distanceM = d1 /\ d0 # d1) => p.ele = eleSmoothed[j + 1]

\* C23: in resamplePoints the pointer j never decreases from one target to the
\* next and stays within [1, n - 1]; every target lies between the cumulative
\* distances of the two bracketing points, so the interpolation fraction lies
\* in [0, 1] and the interpolated elevation between the elevations of the two
\* points; the fraction is 0 when the two distances are equal.
C23_PointerBracketsTarget ==
    /\ [](pc # "start" => (1 <= j /\ j <= Len(cumulativeDistances) - 1))
    /\ []BracketHolds
    /\ [][j' >= j]_vars

\* the pointer has advanced to the second pair of points and the target lies
\* strictly inside it, the interpolated elevation strictly between the two
C23_Witness ==
    /\ pc = "resample"
    /\ j = 2
    /\ Len(resampled) >= 2
    /\ RLt(cumulativeDistances[2], resampled[Len(resampled)].distanceM)
    /\ RLt(resampled[Len(resampled)].distanceM, cumulativeDistances[3])
    /\ resampled[Len(resampled)].ele # eleSmoothed[2]
    /\ resampled[Len(resampled)].ele # eleSmoothed[3]

----------------------------------------------------------------------------
\* the speed of a segment at the flat speed of the call is a number above 0
SpeedUsable(seg) ==
    LET speed == calculateSpeedForSlope(seg.slopePct, call.v, call.profile, call.prudence)
    IN  IsFinite(speed) /\ RLt(RInt(0), speed)

\* C24: for every slope, every flat speed above 0, both profiles and every
\* caution in [0, 1] the speed is finite and above 0, so the moving time at a
\* flat speed within the bounds is finite; the moving time is +infinity
\* exactly when the speed of some segment is not finite or is at most 0.
C24_SpeedPositiveTimeFinite ==
    /\ (Returned("speed") /\ RLt(RInt(0), call.v)) => (IsFinite(ret) /\ RLt(RInt(0), ret))
    /\ Returned("time2") => (IsFinite(ret[1]) /\ IsFinite(ret[2]))
    /\ Returned("time") =>
          /\ ret = INF <=> \E k \in 1..Len(call.segs) : ~SpeedUsable(call.segs[k])
          /\ RLt(RInt(0), call.v) => IsFinite(ret)

\* flat speed 0: a flat segment has speed 0 and the moving time is +infinity,
\* although the other segment, at 25 %, has its fixed speed
C24_Witness ==
    /\ Returned("time")
    /\ call.v = RInt(0)
    /\ Len(call.segs) = 2
    /\ call.segs[1].slopePct = RInt(25)
    /\ call.segs[2].slopePct = RInt(0)
    /\ ret = INF

----------------------------------------------------------------------------
\* the stages whose window [fromM, toM) holds the midpoint of segment k
StagesOf(k) == {i \in 1..Len(steps) :
                   k \in MidpointIn(RMul(steps[i].fromKm, RInt(1000)),
                                    RMul(steps[i].toKm, RInt(1000)))}

RECURSIVE SumStages(_, _)
SumStages(field(_), i) ==
    IF i > Len(steps) THEN RInt(0) ELSE RAdd(field(steps[i]), SumStages(field, i + 1))

StageMovingSec(st) == RInt(st.movingSec)
StageDistanceM(st) == RMul(st.distanceKm, RInt(1000))
StageStopSec(st)   == st.stopSec
StageDPlus(st)     == st.stepDPlus
StageDMinus(st)    == st.stepDMinus

\* C25 (as stated; the code departs from it): for checkpoints at positions
\* above 0 and before the total distance, every segment is counted in exactly
\* one stage, the movingSec of the stages sum to the computed total moving
\* seconds and the distances of the stages sum to the total track distance.
C25_SegmentsInExactlyOneStage ==
    (pc = "done" /\ BeyondTotal = {}) =>
        /\ \A k \in 1..Len(detailedSegments) : Cardinality(StagesOf(k)) = 1
        /\ SumStages(StageMovingSec, 1) = RInt(totals.computedMovingSec)
        /\ SumStages(StageDistanceM, 1) = TotalDistanceM

----------------------------------------------------------------------------
\* C26 (as stated; the code departs from it): for checkpoints before the total
\* distance, the stopSec of the stages sum to the checkpoint stop time that was
\* subtracted from the target: the total stop time minus the rest periods.
C26_StopsAttributedOnce ==
    (Staged /\ BeyondTotal = {}) =>
        SumStages(StageStopSec, 1) =
            RSub(totalStopSec, RInt(req.restPeriods[1] * req.restPeriods[2] * 60))

----------------------------------------------------------------------------
\* C27 (as stated; the code departs from it): for checkpoints before the total
\* distance, the unrounded raw elevation gains of the stages sum to at most
\* the all-points raw gain, and likewise for the loss.
C27_StageGainWithinTotal ==
    (Staged /\ BeyondTotal = {}) =>
        /\ RLe(SumStages(StageDPlus, 1), dPlusTotal)
        /\ RLe(SumStages(StageDMinus, 1), dMinusTotal)

----------------------------------------------------------------------------
RECURSIVE SumDeltaElevM(_, _)
SumDeltaElevM(segs, k) ==
    IF k > Len(segs) THEN RInt(0) ELSE RAdd(segs[k].deltaElevM, SumDeltaElevM(segs, k + 1))

\* the first track point that lies at the total distance: the last point,
\* unless points are repeated at the end of the track
FirstAtTotal ==
    CHOOSE k \in 1..Len(cumulativeDistances) :
        /\ cumulativeDistances[k] = TotalDistanceM
        /\ \A m \in 1..(k - 1) : cumulativeDistances[m] # TotalDistanceM

LastResampled == resampled[Len(resampled)]

\* C28 (as stated): the first and the last resampled point carry the smoothed
\* elevations of the first and of the last track point, and the deltaElevM of
\* the segments sum to the difference of the two, for every track.
C28_Original_EndsAtLastPoint ==
    SegmentsBuilt =>
        /\ resampled[1].ele = eleSmoothed[1]
        /\ LastResampled.ele = eleSmoothed[Len(eleSmoothed)]
        /\ SumDeltaElevM(segments, 1) = RSub(eleSmoothed[Len(eleSmoothed)], eleSmoothed[1])

\* C28 (amended): the first resampled point carries the smoothed elevation of
\* the first track point and the last one that of the first track point lying
\* at the total distance, which is the last track point when the last two
\* points are a positive distance apart; the deltaElevM of the segments sum to
\* the difference of these two elevations.
C28_EndsAtFirstPointAtTotal ==
    SegmentsBuilt =>
        /\ resampled[1].ele = eleSmoothed[1]
        /\ LastResampled.ele = eleSmoothed[FirstAtTotal]
        /\ SumDeltaElevM(segments, 1) = RSub(eleSmoothed[FirstAtTotal], eleSmoothed[1])
        /\ RLt(RInt(0), inp.track.gaps[Len(inp.track.gaps)]) =>
              FirstAtTotal = Len(cumulativeDistances)

\* a track whose last two points are at the same place at different
\* elevations: the resampled profile ends at the elevation of the earlier one
C28_Witness ==
    /\ SegmentsBuilt
    /\ Len(segments) >= 1
    /\ FirstAtTotal = Len(cumulativeDistances) - 1
    /\ LastResampled.ele = eleSmoothed[FirstAtTotal]
    /\ LastResampled.ele # eleSmoothed[Len(eleSmoothed)]

----------------------------------------------------------------------------
\* C29 (as stated): for every argument set that passes the validation of
\* computePacingFromVMA and every section list, each section of positive
\* distance is given a finite, strictly positive targetTimeSec and
\* targetPaceMinPerKm, and totalTimeSec is finite and not negative.
C29_PacingFinitePositive ==
    Returned("pacing") /\ ~ret.thrown =>
        /\ \A k \in 1..Len(ret.sections) :
              RLt(RInt(0), ret.sections[k].distKm) =>
                  /\ IsNumber(ret.sections[k].targetTimeSec)
                  /\ RLt(RInt(0), ret.sections[k].targetTimeSec)
                  /\ IsNumber(ret.sections[k].targetPaceMinPerKm)
                  /\ RLt(RInt(0), ret.sections[k].targetPaceMinPerKm)
        /\ IsNumber(ret.totalTimeSec)
        /\ RLe(RInt(0), ret.totalTimeSec)

----------------------------------------------------------------------------
\* C30 (as stated): formatTime renders every non-negative number of seconds,
\* fractional ones included, with a minutes field and a seconds field that
\* are both within 0..59.
C30_FieldsWithinRange ==
    Returned("format") => ret.h >= 0 /\ ret.m \in 0..59 /\ ret.s \in 0..59

====
